---- MODULE Spec2Model ----
(***************************************************************************)
(* Model of the request-id middleware of request_id.go: the four strategy  *)
(* families (IDGenerator, IDSource, IDSaveHandler, IDPostProcessor), the   *)
(* construction-time defaulting of NewRequestIDInjector, and ServeHTTP as  *)
(* a per-request sequence of steps that several requests interleave.       *)
(*                                                                         *)
(* Header names are sequences of one-character strings so that the         *)
(* canonicalisation done by http.Header.Get/Set/Add is computed character  *)
(* by character; header values and identifiers are strings.                *)
(***************************************************************************)
EXTENDS Integers, Sequences, FiniteSets, TLC

VARIABLES
    opts,     \* the IDInjectorOptions handed to NewRequestIDInjector
    v,        \* the requestIDInjector: its four bindings
    pc,       \* pc[q]: where request q stands in ServeHTTP
    inbound,  \* inbound[q]: request q as the server read it, before ServeHTTP
    req,      \* req[q]: the *http.Request (its Header, its URL query)
    rw,       \* rw[q]: the header map of the http.ResponseWriter of q
    id,       \* id[q]: the local variable id of ServeHTTP
    calls,    \* calls[q]: the strategy calls ServeHTTP made for q, in order
    store,    \* gorilla/context's table: request -> (key -> value)
    sink,     \* sink[q]: what the custom save / post-process functions recorded
    cleared   \* the requests whose scope the outer ClearHandler has cleared

vars == <<opts, v, pc, inbound, req, rw, id, calls, store, sink, cleared>>

----------------------------------------------------------------------------
(* Bounds *)

\* how many requests the host hands to the one orchestrator instance
NumRequests == 2

Requests == 1..NumRequests

----------------------------------------------------------------------------
(* Header names and net/http's header map *)

UpperLetters == <<"A","B","C","D","E","F","G","H","I","J","K","L","M",
                  "N","O","P","Q","R","S","T","U","V","W","X","Y","Z">>
LowerLetters == <<"a","b","c","d","e","f","g","h","i","j","k","l","m",
                  "n","o","p","q","r","s","t","u","v","w","x","y","z">>

IsUpper(c) == \E i \in 1..26 : UpperLetters[i] = c
IsLower(c) == \E i \in 1..26 : LowerLetters[i] = c
ToUpper(c) == IF IsLower(c) THEN UpperLetters[CHOOSE i \in 1..26 : LowerLetters[i] = c] ELSE c
ToLower(c) == IF IsUpper(c) THEN LowerLetters[CHOOSE i \in 1..26 : UpperLetters[i] = c] ELSE c

\* the bytes a header field name may hold (of those the model uses)
ValidHeaderFieldByte(c) == IsUpper(c) \/ IsLower(c) \/ c = "-"

DefaultIDHeader == <<"X","-","C","o","m","m","a","n","d","-","I","D">>

\* a second header name, for strategies configured independently
AltIDHeader == <<"X","-","R","e","q","u","e","s","t","-","I","d">>

\* textproto.CanonicalMIMEHeaderKey: first letter and every letter after a
\* hyphen upper case, the rest lower case; a name with an invalid byte is
\* returned unchanged.
CanonicalMIMEHeaderKey(s) ==
    IF \E i \in 1..Len(s) : ~ValidHeaderFieldByte(s[i])
    THEN s
    ELSE [i \in 1..Len(s) |->
            IF i = 1 \/ s[i-1] = "-" THEN ToUpper(s[i]) ELSE ToLower(s[i])]

EmptyHeader == <<>>

\* http.Header.Get: the first value stored under the canonical key, or ""
HeaderGet(h, key) ==
    LET k == CanonicalMIMEHeaderKey(key)
    IN IF k \in DOMAIN h /\ Len(h[k]) > 0 THEN h[k][1] ELSE ""

\* h[key] = vals: a plain map assignment, the key taken as written
HeaderAssign(h, key, vals) == (key :> vals) @@ h

\* http.Header.Set: replaces the value list under the canonical key
HeaderSet(h, key, value) == HeaderAssign(h, CanonicalMIMEHeaderKey(key), <<value>>)

\* http.Header.Add: appends to the value list under the canonical key
HeaderAdd(h, key, value) ==
    LET k == CanonicalMIMEHeaderKey(key)
    IN HeaderAssign(h, k, (IF k \in DOMAIN h THEN h[k] ELSE <<>>) \o <<value>>)

\* Header names are case-insensitive on the wire: the keys of h that name
\* the same header field as name.
KeysNaming(h, name) ==
    {k \in DOMAIN h : CanonicalMIMEHeaderKey(k) = CanonicalMIMEHeaderKey(name)}

\* http.Header.Write emits one line per value of every key, the key as stored:
\* the lines <<key, position, value>> the peer receives for header field name.
WireLines(h, name) ==
    UNION {{<<k, i, h[k][i]>> : i \in 1..Len(h[k])} : k \in KeysNaming(h, name)}

WireValues(h, name) == {l[3] : l \in WireLines(h, name)}

----------------------------------------------------------------------------
(* Identifier generators *)

HexDigits == <<"0","1","2","3","4","5","6","7","8","9","a","b","c","d","e","f">>

\* hex.EncodeToString: two lowercase hex digits per byte
RECURSIVE EncodeToString(_)
EncodeToString(b) ==
    IF b = <<>> THEN ""
    ELSE HexDigits[(b[1] \div 16) + 1] \o HexDigits[(b[1] % 16) + 1] \o EncodeToString(Tail(b))

\* What the entropy source may do on one rand.Read: fill the buffer, or fail.
EntropyOutcomes == {[ok |-> TRUE, seed |-> 171], [ok |-> FALSE, seed |-> 0]}

\* rand.Read(make([]byte, n)): on success every byte is written; on failure
\* the freshly made buffer keeps its zero bytes and err is non-nil.
RandRead(n, e) ==
    [buf |-> [i \in 1..n |-> IF e.ok THEN (e.seed + 17 * (i - 1)) % 256 ELSE 0],
     err |-> ~e.ok]

\* fmt's %f of float64(nanos)/1000000000: six decimals, rounded
RECURSIVE ZeroPad(_, _)
ZeroPad(s, width) == IF Len(s) >= width THEN s ELSE ZeroPad("0" \o s, width)

FormatSeconds(nanos) ==
    LET micros == (nanos + 500) \div 1000
    IN ToString(micros \div 1000000) \o "." \o ZeroPad(ToString(micros % 1000000), 6)

\* time.Now().UnixNano() as the generator may read it
Times == {1500000600}

NewRandomIDGenerator == [kind |-> "random"]
NewTimestampIDGenerator == [kind |-> "timestamp"]

\* a slip in the test on err: the empty id is returned when the read succeeded
randomIDGeneratorGenerateInverted(e) ==
    LET r == RandRead(16, e)
    IN IF ~r.err THEN "" ELSE EncodeToString(r.buf)

randomIDGeneratorGenerate(e) ==
    LET r == RandRead(16, e)
    IN IF r.err THEN "" ELSE EncodeToString(r.buf)

timestampIDGeneratorGenerate(now, e) ==
    LET r == RandRead(2, e)
    IN FormatSeconds(now) \o "." \o EncodeToString(r.buf)

IDGeneratorGenerate(g, now, e) ==
    IF g.kind = "random" THEN randomIDGeneratorGenerate(e)
    ELSE timestampIDGeneratorGenerate(now, e)

----------------------------------------------------------------------------
(* Identifier sources *)

NewSourceHeader(header) == [kind |-> "header", header |-> header]

\* NewSourceCustom(fn), with fn the extraction of an id from the URL query
NewSourceCustom == [kind |-> "custom"]

sourceHeaderGetID(s, r) == HeaderGet(r.Header, s.header)

sourceCustomGetID(s, r) == r.Query

IDSourceGetID(s, r) ==
    IF s.kind = "header" THEN sourceHeaderGetID(s, r) ELSE sourceCustomGetID(s, r)

----------------------------------------------------------------------------
(* Save handlers.  A save handler may write the request, the context table *)
(* and the custom function's record: SaveID yields all three.              *)

NewSaveHandlerHeader(header) == [kind |-> "header", header |-> header]

ContextField == "requestid"

NewSaveHandlerContext(field) == [kind |-> "context", field |-> field]

\* NewSaveHandlerCustom(fn), with fn recording the id it is given
NewSaveHandlerCustom == [kind |-> "custom"]

\* gorilla/context Set(r, key, val): data[r][key] = val, data[r] made on demand
contextSet(data, r, key, val) ==
    (r :> ((key :> val) @@ (IF r \in DOMAIN data THEN data[r] ELSE <<>>))) @@ data

\* gorilla/context Clear(r): delete(data, r)
contextClear(data, r) == [x \in (DOMAIN data) \ {r} |-> data[x]]

\* a slip in the header call: Add, which appends, where Set replaces
saveHandlerHeaderSaveIDAdding(s, st, idArg) ==
    [st EXCEPT !.r.Header = HeaderAdd(st.r.Header, s.header, idArg)]

saveHandlerHeaderSaveID(s, st, idArg) ==
    [st EXCEPT !.r.Header = HeaderSet(st.r.Header, s.header, idArg)]

\* a slip in the scope: the id kept in one scope all requests share, not in
\* the scope of the request at hand
saveHandlerContextSaveIDShared(s, st, idArg) ==
    [st EXCEPT !.data = contextSet(st.data, CHOOSE p \in Requests : TRUE, s.field, idArg)]

\* a slip in the argument order: the id as the key, the field as the value
saveHandlerContextSaveIDSwapped(s, st, idArg) ==
    [st EXCEPT !.data = contextSet(st.data, st.q, idArg, s.field)]

saveHandlerContextSaveID(s, st, idArg) ==
    [st EXCEPT !.data = contextSet(st.data, st.q, s.field, idArg)]

saveHandlerCustomSaveID(s, st, idArg) ==
    [st EXCEPT !.sink = Append(st.sink, <<"save", idArg>>)]

IDSaveHandlerSaveID(s, st, idArg) ==
    CASE s.kind = "header"  -> saveHandlerHeaderSaveID(s, st, idArg)
      [] s.kind = "context" -> saveHandlerContextSaveID(s, st, idArg)
      [] OTHER              -> saveHandlerCustomSaveID(s, st, idArg)

----------------------------------------------------------------------------
(* Post-processors *)

NewPostProcessorHeader(field) == [kind |-> "header", header |-> field]

\* NewPostProcessorCustom(fn), with fn appending the id to an observable list
NewPostProcessorCustom == [kind |-> "custom"]

postProcessorHeaderProcess(p, st, idArg) ==
    [st EXCEPT !.rw = HeaderAssign(st.rw, p.header, <<idArg>>)]

postProcessorCustomProcess(p, st, idArg) ==
    [st EXCEPT !.sink = Append(st.sink, <<"process", idArg>>)]

IDPostProcessorProcess(p, st, idArg) ==
    IF p.kind = "header" THEN postProcessorHeaderProcess(p, st, idArg)
    ELSE postProcessorCustomProcess(p, st, idArg)

----------------------------------------------------------------------------
(* Construction *)

\* a nil interface value
Nil == [kind |-> "nil"]

\* a slip in the nil tests: the defaults are installed over what was supplied
applyDefaultsOverSupplied(m) ==
    [idGenerator     |-> NewTimestampIDGenerator,
     idSource        |-> NewSourceHeader(DefaultIDHeader),
     idSaveHandler   |-> NewSaveHandlerHeader(DefaultIDHeader),
     idPostProcessor |-> NewPostProcessorHeader(DefaultIDHeader)]

applyDefaults(m) ==
    [idGenerator     |-> IF m.idGenerator = Nil THEN NewTimestampIDGenerator
                         ELSE m.idGenerator,
     idSource        |-> IF m.idSource = Nil THEN NewSourceHeader(DefaultIDHeader)
                         ELSE m.idSource,
     idSaveHandler   |-> IF m.idSaveHandler = Nil THEN NewSaveHandlerHeader(DefaultIDHeader)
                         ELSE m.idSaveHandler,
     idPostProcessor |-> IF m.idPostProcessor = Nil THEN NewPostProcessorHeader(DefaultIDHeader)
                         ELSE m.idPostProcessor]

NewRequestIDInjector(o) ==
    applyDefaults([idGenerator     |-> o.IDGenerator,
                   idSource        |-> o.IDSource,
                   idSaveHandler   |-> o.IDSaveHandler,
                   idPostProcessor |-> o.IDPostProcessor])

\* GetRequestID(r)
GetRequestID(r) == HeaderGet(r.Header, DefaultIDHeader)

EmptyOptions ==
    [IDGenerator |-> Nil, IDSource |-> Nil, IDSaveHandler |-> Nil, IDPostProcessor |-> Nil]

\* the options of the usage note of NewRequestIDInjector: every default named
ExplicitDefaultOptions ==
    [IDGenerator     |-> NewTimestampIDGenerator,
     IDSource        |-> NewSourceHeader(DefaultIDHeader),
     IDSaveHandler   |-> NewSaveHandlerHeader(DefaultIDHeader),
     IDPostProcessor |-> NewPostProcessorHeader(DefaultIDHeader)]

\* The options a caller may pass: every slot unset or one of its variants.
IDInjectorOptions ==
    [IDGenerator     : {Nil, NewRandomIDGenerator},
     IDSource        : {Nil, NewSourceHeader(DefaultIDHeader), NewSourceHeader(AltIDHeader),
                        NewSourceCustom},
     IDSaveHandler   : {Nil, NewSaveHandlerHeader(DefaultIDHeader),
                        NewSaveHandlerContext(ContextField), NewSaveHandlerCustom},
     IDPostProcessor : {Nil, NewPostProcessorHeader(AltIDHeader), NewPostProcessorCustom}]
    \cup {ExplicitDefaultOptions}

----------------------------------------------------------------------------
(* The host: what reaches ServeHTTP *)

LowerName(s) == [i \in 1..Len(s) |-> ToLower(s[i])]

\* Requests as they come off the wire: header lines <<name, value>> and the
\* id parameter of the URL query.
WireRequests ==
    {[lines |-> <<>>,                                              query |-> ""],
     [lines |-> <<<<DefaultIDHeader, "abc123">>>>,                  query |-> ""],
     [lines |-> <<<<LowerName(DefaultIDHeader), "abc123">>>>,       query |-> ""],
     [lines |-> <<<<DefaultIDHeader, "">>>>,                        query |-> ""],
     [lines |-> <<<<DefaultIDHeader, "abc123">>, <<DefaultIDHeader, "zzz">>>>, query |-> ""],
     [lines |-> <<<<AltIDHeader, "r-42">>>>,                        query |-> "q-7"]}

\* The server's reading of a request: every line added under its canonical key.
RECURSIVE ReadHeader(_)
ReadHeader(lines) ==
    IF lines = <<>> THEN EmptyHeader
    ELSE LET n == Len(lines)
         IN HeaderAdd(ReadHeader(SubSeq(lines, 1, n - 1)), lines[n][1], lines[n][2])

ReadRequest(w) == [Header |-> ReadHeader(w.lines), Query |-> w.query]

\* The response headers as handlers before this one may have left them:
\* untouched, written through Header.Set, or assigned under the literal key.
PriorResponses ==
    {EmptyHeader,
     HeaderSet(EmptyHeader, DefaultIDHeader, "old"),
     HeaderAssign(EmptyHeader, DefaultIDHeader, <<"old", "older">>)}

\* What the parallel host is given: a request with the id header, one with
\* another header and a query id, one with neither.
ConcurrentWireRequests ==
    {[lines |-> <<>>,                                 query |-> ""],
     [lines |-> <<<<DefaultIDHeader, "abc123">>>>,     query |-> ""],
     [lines |-> <<<<AltIDHeader, "r-42">>>>,           query |-> "q-7"]}

ConcurrentPriorResponses ==
    {EmptyHeader, HeaderSet(EmptyHeader, DefaultIDHeader, "old")}

----------------------------------------------------------------------------
(* ServeHTTP *)

Call(q, c) == [calls EXCEPT ![q] = Append(@, c)]

\* the view a strategy call has of request q: r, rw, and what lies behind them
View(q) == [q |-> q, r |-> req[q], rw |-> rw[q], data |-> store, sink |-> sink[q]]

Commit(q, st) ==
    /\ req'   = [req EXCEPT ![q] = st.r]
    /\ rw'    = [rw EXCEPT ![q] = st.rw]
    /\ store' = st.data
    /\ sink'  = [sink EXCEPT ![q] = st.sink]

\* the host calls ServeHTTP(rw, r, next) for a request it has read, one of
\* wires, with the response headers as one of priors
ArriveFrom(q, wires, priors) ==
    /\ pc[q] = "idle"
    /\ \E w \in wires, h \in priors :
         /\ inbound' = [inbound EXCEPT ![q] = [r |-> ReadRequest(w), rw |-> h]]
         /\ req' = [req EXCEPT ![q] = ReadRequest(w)]
         /\ rw'  = [rw EXCEPT ![q] = h]
    /\ pc' = [pc EXCEPT ![q] = "getid"]
    /\ UNCHANGED <<opts, v, id, calls, store, sink, cleared>>

\* a slip in the test on id: the generator is consulted whatever the source gave
NeedsGenerateAlways(x) == TRUE

\* if id == ""
NeedsGenerate(x) == x = ""

\* id := v.idSource.GetID(r)
ServeGetID(q) ==
    /\ pc[q] = "getid"
    /\ LET got == IDSourceGetID(v.idSource, req[q])
       IN /\ id' = [id EXCEPT ![q] = got]
          /\ calls' = Call(q, [op |-> "GetID", val |-> got])
          /\ pc' = [pc EXCEPT ![q] = IF NeedsGenerate(got) THEN "generate" ELSE "save"]
    /\ UNCHANGED <<opts, v, inbound, req, rw, store, sink, cleared>>

\* a retry that the code does not have: an empty id is generated again
ServeGenerateRetrying(q) ==
    /\ pc[q] = "generate"
    /\ \E now \in Times, e \in EntropyOutcomes :
         LET made == IDGeneratorGenerate(v.idGenerator, now, e)
         IN /\ id' = [id EXCEPT ![q] = made]
            /\ calls' = Call(q, [op |-> "Generate", val |-> made, entropy |-> e.ok])
            /\ pc' = [pc EXCEPT ![q] = IF made = "" /\ Len(calls[q]) < 3 THEN "generate"
                                       ELSE "save"]
    /\ UNCHANGED <<opts, v, inbound, req, rw, store, sink, cleared>>

\* id = v.idGenerator.Generate()
ServeGenerate(q) ==
    /\ pc[q] = "generate"
    /\ \E now \in Times, e \in EntropyOutcomes :
         LET made == IDGeneratorGenerate(v.idGenerator, now, e)
         IN /\ id' = [id EXCEPT ![q] = made]
            /\ calls' = Call(q, [op |-> "Generate", val |-> made, entropy |-> e.ok])
    /\ pc' = [pc EXCEPT ![q] = "save"]
    /\ UNCHANGED <<opts, v, inbound, req, rw, store, sink, cleared>>

\* a slip in the order of the calls: the downstream handler is reached as
\* soon as the id is saved, before it is post-processed
ServeSaveIDThenNext(q) ==
    /\ pc[q] = "save"
    /\ Commit(q, IDSaveHandlerSaveID(v.idSaveHandler, View(q), id[q]))
    /\ calls' = Call(q, [op |-> "SaveID", val |-> id[q]])
    /\ pc' = [pc EXCEPT ![q] = "next"]
    /\ UNCHANGED <<opts, v, inbound, id, cleared>>

\* v.idSaveHandler.SaveID(rw, r, id)
ServeSaveID(q) ==
    /\ pc[q] = "save"
    /\ Commit(q, IDSaveHandlerSaveID(v.idSaveHandler, View(q), id[q]))
    /\ calls' = Call(q, [op |-> "SaveID", val |-> id[q]])
    /\ pc' = [pc EXCEPT ![q] = "process"]
    /\ UNCHANGED <<opts, v, inbound, id, cleared>>

\* a slip in the argument: the post-processor is handed a newly generated id
\* instead of the local variable
ServeProcessRegenerating(q) ==
    /\ pc[q] = "process"
    /\ \E now \in Times, e \in EntropyOutcomes :
         LET made == IDGeneratorGenerate(v.idGenerator, now, e)
         IN /\ Commit(q, IDPostProcessorProcess(v.idPostProcessor, View(q), made))
            /\ calls' = [calls EXCEPT ![q] = @ \o <<[op |-> "Generate", val |-> made, entropy |-> e.ok],
                                                   [op |-> "Process", val |-> made]>>]
    /\ pc' = [pc EXCEPT ![q] = "next"]
    /\ UNCHANGED <<opts, v, inbound, id, cleared>>

\* v.idPostProcessor.Process(rw, r, id)
ServeProcess(q) ==
    /\ pc[q] = "process"
    /\ Commit(q, IDPostProcessorProcess(v.idPostProcessor, View(q), id[q]))
    /\ calls' = Call(q, [op |-> "Process", val |-> id[q]])
    /\ pc' = [pc EXCEPT ![q] = "next"]
    /\ UNCHANGED <<opts, v, inbound, id, cleared>>

\* next(rw, r): the downstream handler runs with the pair it is handed, reads
\* the id through GetRequestID, and returns
ServeNext(q) ==
    /\ pc[q] = "next"
    /\ calls' = Call(q, [op |-> "next", val |-> GetRequestID(req[q]), pair |-> q])
    /\ pc' = [pc EXCEPT ![q] = "returned"]
    /\ UNCHANGED <<opts, v, inbound, req, rw, id, store, sink, cleared>>

\* context.ClearHandler(app): once the wrapped handler has returned, the
\* outer layer, where the application installs it, clears the request's scope
ClearHandler(q) ==
    /\ pc[q] = "returned"
    /\ store' = contextClear(store, q)
    /\ cleared' = cleared \cup {q}
    /\ pc' = [pc EXCEPT ![q] = "cleared"]
    /\ UNCHANGED <<opts, v, inbound, req, rw, id, calls, sink>>

NoRequest == [Header |-> EmptyHeader, Query |-> ""]

\* The request completes: the host drops the request and the response writer.
\* Nothing of the middleware runs here, so what the context table holds stays.
Finish(q) ==
    /\ pc[q] \in {"returned", "cleared"}
    /\ pc' = [pc EXCEPT ![q] = "done"]
    /\ inbound' = [inbound EXCEPT ![q] = [r |-> NoRequest, rw |-> EmptyHeader]]
    /\ req' = [req EXCEPT ![q] = NoRequest]
    /\ rw' = [rw EXCEPT ![q] = EmptyHeader]
    /\ id' = [id EXCEPT ![q] = ""]
    /\ calls' = [calls EXCEPT ![q] = <<>>]
    /\ sink' = [sink EXCEPT ![q] = <<>>]
    /\ UNCHANGED <<opts, v, store, cleared>>

\* a host that serves one request at a time
ArriveAlone(q) ==
    /\ \A p \in Requests : pc[p] \in {"idle", "done"}
    /\ ArriveFrom(q, WireRequests, PriorResponses)

\* a host that serves its requests in parallel
ArriveAmongOthers(q) == ArriveFrom(q, ConcurrentWireRequests, ConcurrentPriorResponses)

----------------------------------------------------------------------------
(* Specifications *)

InitRequests ==
    /\ pc = [q \in Requests |-> "idle"]
    /\ inbound = [q \in Requests |-> [r |-> NoRequest, rw |-> EmptyHeader]]
    /\ req = [q \in Requests |-> NoRequest]
    /\ rw = [q \in Requests |-> EmptyHeader]
    /\ id = [q \in Requests |-> ""]
    /\ calls = [q \in Requests |-> <<>>]
    /\ store = <<>>
    /\ sink = [q \in Requests |-> <<>>]
    /\ cleared = {}

\* One orchestrator built from any options, on a host serving its requests
\* one after the other.
Init ==
    /\ opts \in IDInjectorOptions
    /\ v = NewRequestIDInjector(opts)
    /\ InitRequests

Next ==
    \E q \in Requests :
        \/ ArriveAlone(q)
        \/ ServeGetID(q)
        \/ ServeGenerate(q)
        \/ ServeSaveID(q)
        \/ ServeProcess(q)
        \/ ServeNext(q)
        \/ ClearHandler(q)
        \/ Finish(q)

Spec == Init /\ [][Next]_vars

\* Option sets that between them use every strategy variant.
ConcurrentOptions ==
    {EmptyOptions,
     [IDGenerator |-> NewRandomIDGenerator, IDSource |-> NewSourceCustom,
      IDSaveHandler |-> NewSaveHandlerContext(ContextField),
      IDPostProcessor |-> NewPostProcessorHeader(AltIDHeader)],
     [IDGenerator |-> Nil, IDSource |-> NewSourceHeader(AltIDHeader),
      IDSaveHandler |-> NewSaveHandlerCustom, IDPostProcessor |-> NewPostProcessorCustom]}

\* One orchestrator on a host serving its requests in parallel: the steps of
\* the ServeHTTP invocations interleave in every order.
InitConcurrent ==
    /\ opts \in ConcurrentOptions
    /\ v = NewRequestIDInjector(opts)
    /\ InitRequests

NextConcurrent ==
    \E q \in Requests :
        \/ ArriveAmongOthers(q)
        \/ ServeGetID(q)
        \/ ServeGenerate(q)
        \/ ServeSaveID(q)
        \/ ServeProcess(q)
        \/ ServeNext(q)
        \/ ClearHandler(q)
        \/ Finish(q)

SpecConcurrent == InitConcurrent /\ [][NextConcurrent]_vars

----------------------------------------------------------------------------
(* Properties *)

\* the positions in calls[q] of the calls of one operation
CallsOf(q, op) == {i \in DOMAIN calls[q] : calls[q][i].op = op}

Ops(q) == [i \in DOMAIN calls[q] |-> calls[q][i].op]

IsPrefix(s, t) == Len(s) <= Len(t) /\ \A i \in 1..Len(s) : s[i] = t[i]

\* ServeHTTP has the result of GetID in hand
GotID(q) == pc[q] \in {"generate", "save", "process", "next", "returned", "cleared"}

\* ServeHTTP has called next and next has returned
Served(q) == pc[q] \in {"returned", "cleared"}

\* What request q carried for the configured source when it arrived: the first
\* value of the configured header, or the id of the query for the custom source.
Carried(q) ==
    IF v.idSource.kind = "header"
    THEN LET ks == KeysNaming(inbound[q].r.Header, v.idSource.header)
         IN IF ks = {} THEN ""
            ELSE LET vals == inbound[q].r.Header[CHOOSE k \in ks : TRUE]
                 IN IF vals = <<>> THEN "" ELSE vals[1]
    ELSE inbound[q].r.Query

\* C1: a request whose source yields a non-empty value is given exactly that
\* value as its id: Generate is never called for it, and SaveID and Process
\* are both called with that value.
C1_SourceTakesPrecedence ==
    \A q \in Requests :
        (GotID(q) /\ Carried(q) # "") =>
            /\ pc[q] # "generate"
            /\ id[q] = Carried(q)
            /\ CallsOf(q, "Generate") = {}
            /\ \A i \in CallsOf(q, "SaveID") \cup CallsOf(q, "Process") :
                   calls[q][i].val = Carried(q)

C1_Witness ==
    \E q \in Requests :
        /\ Served(q)
        /\ Carried(q) = "abc123"
        /\ id[q] = "abc123"
        /\ CallsOf(q, "SaveID") # {} /\ CallsOf(q, "Process") # {}

\* C2: for one request GetID is called once, Generate at most once, SaveID and
\* Process at most once each, and SaveID and Process are handed the same id,
\* the one ServeHTTP resolved.
C2_OneIdentifierPerRequest ==
    \A q \in Requests :
        /\ Cardinality(CallsOf(q, "GetID")) = (IF GotID(q) THEN 1 ELSE 0)
        /\ Cardinality(CallsOf(q, "Generate")) <= 1
        /\ Cardinality(CallsOf(q, "SaveID")) <= 1
        /\ Cardinality(CallsOf(q, "Process")) <= 1
        /\ \A i \in CallsOf(q, "SaveID"), j \in CallsOf(q, "Process") :
               calls[q][i].val = calls[q][j].val /\ calls[q][j].val = id[q]
        /\ Served(q) => CallsOf(q, "SaveID") # {} /\ CallsOf(q, "Process") # {}

C2_Witness ==
    \E q \in Requests :
        /\ Served(q)
        /\ Cardinality(CallsOf(q, "Generate")) = 1
        /\ \E i \in CallsOf(q, "SaveID"), j \in CallsOf(q, "Process") :
               calls[q][i].val = calls[q][j].val /\ calls[q][i].val # ""

\* the calls of a whole ServeHTTP, given what GetID returned
ExpectedOps(got) ==
    IF got = "" THEN <<"GetID", "Generate", "SaveID", "Process", "next">>
    ELSE <<"GetID", "SaveID", "Process", "next">>

\* C3: the calls ServeHTTP makes for a request are, in this order, GetID,
\* Generate (only when GetID returned empty), SaveID, Process, next; next is
\* called exactly once, after SaveID and Process, with the pair of the request.
C3_FixedOrder ==
    \A q \in Requests :
        /\ calls[q] # <<>> => IsPrefix(Ops(q), ExpectedOps(calls[q][1].val))
        /\ Served(q) => Ops(q) = ExpectedOps(calls[q][1].val)
        /\ pc[q] \in {"idle", "getid", "generate", "save", "process", "next"} =>
               CallsOf(q, "next") = {}
        /\ \A i \in CallsOf(q, "next") : calls[q][i].pair = q

C3_Witness ==
    \E q \in Requests :
        /\ Served(q)
        /\ Ops(q) = <<"GetID", "Generate", "SaveID", "Process", "next">>

\* the bindings NewRequestIDInjector's documentation spells out as the defaults
ExplicitDefaultBindings ==
    [idGenerator     |-> NewTimestampIDGenerator,
     idSource        |-> NewSourceHeader(DefaultIDHeader),
     idSaveHandler   |-> NewSaveHandlerHeader(DefaultIDHeader),
     idPostProcessor |-> NewPostProcessorHeader(DefaultIDHeader)]

\* ServeHTTP has called SaveID and Process
Processed(q) == pc[q] \in {"next", "returned", "cleared"}

\* C4: every slot the options supply is the binding, every slot they leave
\* unset is bound to its default, in every state (so no request changes a
\* binding); and an orchestrator built from empty options has the same
\* bindings as one built from the options that name every default, and both
\* serve a request the same way: the id is the one the
\* default header carried or one the timestamp generator made, it is set on the
\* request under the default header and assigned on the response under the
\* default header, and neither the context table nor a custom function is used.
C4_DefaultsOnceAndOnlyUnset ==
    /\ v.idGenerator = (IF opts.IDGenerator = Nil THEN NewTimestampIDGenerator
                        ELSE opts.IDGenerator)
    /\ v.idSource = (IF opts.IDSource = Nil THEN NewSourceHeader(DefaultIDHeader)
                     ELSE opts.IDSource)
    /\ v.idSaveHandler = (IF opts.IDSaveHandler = Nil THEN NewSaveHandlerHeader(DefaultIDHeader)
                          ELSE opts.IDSaveHandler)
    /\ v.idPostProcessor = (IF opts.IDPostProcessor = Nil
                            THEN NewPostProcessorHeader(DefaultIDHeader)
                            ELSE opts.IDPostProcessor)
    /\ opts \in {EmptyOptions, ExplicitDefaultOptions} =>
         /\ v = ExplicitDefaultBindings
         /\ store = <<>>
         /\ \A q \in Requests :
              /\ sink[q] = <<>>
              /\ Processed(q) =>
                   /\ \/ id[q] # "" /\ id[q] = HeaderGet(inbound[q].r.Header, DefaultIDHeader)
                      \/ /\ HeaderGet(inbound[q].r.Header, DefaultIDHeader) = ""
                         /\ \E now \in Times, e \in EntropyOutcomes :
                                id[q] = timestampIDGeneratorGenerate(now, e)
                   /\ req[q] = [inbound[q].r EXCEPT
                                  !.Header = HeaderSet(inbound[q].r.Header, DefaultIDHeader, id[q])]
                   /\ rw[q] = HeaderAssign(inbound[q].rw, DefaultIDHeader, <<id[q]>>)

C4_Witness ==
    /\ opts = EmptyOptions
    /\ v = ExplicitDefaultBindings
    /\ \E q \in Requests : Served(q) /\ CallsOf(q, "Generate") # {}

\* C5: a request for which the source yields nothing is given the value one
\* Generate call returned for it, and that value is non-empty whenever the
\* entropy read of that call succeeded.
C5_GeneratedWhenSourceEmpty ==
    \A q \in Requests :
        (pc[q] \in {"save", "process", "next", "returned", "cleared"} /\ Carried(q) = "") =>
            /\ Cardinality(CallsOf(q, "Generate")) = 1
            /\ \A g \in CallsOf(q, "Generate") :
                   /\ g = 2
                   /\ id[q] = calls[q][g].val
                   /\ calls[q][g].entropy => id[q] # ""

C5_Witness ==
    \E q \in Requests :
        /\ Served(q)
        /\ Carried(q) = ""
        /\ v.idGenerator = NewRandomIDGenerator
        /\ \E g \in CallsOf(q, "Generate") : calls[q][g].entropy
        /\ Len(id[q]) = 32

\* C6: with the default bindings, a request that arrives with X-Command-ID
\* carrying a non-empty v leaves the pipeline with v still the value of that
\* header (the header map untouched when v was its only value), the response
\* carrying v under X-Command-ID (its only value for that header when no
\* handler before had stored one under another spelling), and the downstream
\* handler reading v through GetRequestID.
C6_ScenarioHeaderPresent ==
    \A q \in Requests :
        LET val == GetRequestID(inbound[q].r)
        IN (v = ExplicitDefaultBindings /\ Processed(q) /\ val # "") =>
             /\ GetRequestID(req[q]) = val
             /\ Len(inbound[q].r.Header[CanonicalMIMEHeaderKey(DefaultIDHeader)]) = 1 =>
                    req[q] = inbound[q].r
             /\ DefaultIDHeader \in DOMAIN rw[q] /\ rw[q][DefaultIDHeader] = <<val>>
             /\ KeysNaming(inbound[q].rw, DefaultIDHeader) \subseteq {DefaultIDHeader} =>
                    WireLines(rw[q], DefaultIDHeader) = {<<DefaultIDHeader, 1, val>>}
             /\ Served(q) =>
                    /\ CallsOf(q, "next") # {}
                    /\ \A i \in CallsOf(q, "next") : calls[q][i].val = val

C6_Witness ==
    \E q \in Requests :
        /\ v = ExplicitDefaultBindings
        /\ Served(q)
        /\ GetRequestID(inbound[q].r) = "abc123"
        /\ req[q] = inbound[q].r
        /\ WireLines(rw[q], DefaultIDHeader) = {<<DefaultIDHeader, 1, "abc123">>}

\* C7: when the source yields nothing and Generate returns the empty id, there
\* is no second Generate call, SaveID and Process are still called, both with
\* the empty id, and the downstream handler is still called exactly once; at
\* no point of it is the pipeline unable to take its next step.
C7_EmptyGeneratedIdPassesThrough ==
    \A q \in Requests :
        (\E g \in CallsOf(q, "Generate") : calls[q][g].val = "") =>
            /\ Cardinality(CallsOf(q, "Generate")) = 1
            /\ pc[q] \in {"save", "process", "next", "returned", "cleared"}
            /\ pc[q] = "save" => ENABLED ServeSaveID(q)
            /\ pc[q] = "process" => ENABLED ServeProcess(q)
            /\ pc[q] = "next" => ENABLED ServeNext(q)
            /\ pc[q] \in {"process", "next", "returned", "cleared"} =>
                   \E i \in CallsOf(q, "SaveID") : calls[q][i].val = ""
            /\ Processed(q) => \E i \in CallsOf(q, "Process") : calls[q][i].val = ""
            /\ Served(q) => Cardinality(CallsOf(q, "next")) = 1

C7_Witness ==
    \E q \in Requests :
        /\ Served(q)
        /\ \E g \in CallsOf(q, "Generate") : calls[q][g].val = "" /\ ~calls[q][g].entropy
        /\ \E i \in CallsOf(q, "SaveID") : calls[q][i].val = ""
        /\ \E i \in CallsOf(q, "Process") : calls[q][i].val = ""
        /\ Cardinality(CallsOf(q, "next")) = 1

\* C8: once the header post-processor has run, the response carries exactly
\* one value for the configured header name, the id, whatever the response
\* headers held before.
C8_ResponseCarriesOnlyTheId ==
    \A q \in Requests :
        (v.idPostProcessor.kind = "header" /\ Processed(q)) =>
            /\ Cardinality(WireLines(rw[q], v.idPostProcessor.header)) = 1
            /\ WireValues(rw[q], v.idPostProcessor.header) = {id[q]}

\* the scope the context table holds for request q
ScopeOf(data, q) == IF q \in DOMAIN data THEN <<data[q]>> ELSE <<>>

\* what the save handler and the post-processor of the orchestrator leave
\* behind for request q, read back
SavedFor(q) ==
    CASE v.idSaveHandler.kind = "header"  -> {HeaderGet(req[q].Header, v.idSaveHandler.header)}
      [] v.idSaveHandler.kind = "context" ->
             IF q \in DOMAIN store /\ v.idSaveHandler.field \in DOMAIN store[q]
             THEN {store[q][v.idSaveHandler.field]} ELSE {}
      [] OTHER -> {sink[q][i][2] : i \in {j \in DOMAIN sink[q] : sink[q][j][1] = "save"}}

PostProcessedFor(q) ==
    IF v.idPostProcessor.kind = "header"
    THEN IF v.idPostProcessor.header \in DOMAIN rw[q]
         THEN {rw[q][v.idPostProcessor.header][i] : i \in DOMAIN rw[q][v.idPostProcessor.header]}
         ELSE {}
    ELSE {sink[q][i][2] : i \in {j \in DOMAIN sink[q] : sink[q][j][1] = "process"}}

C9_OwnId ==
    \A q \in Requests :
        /\ \A i \in CallsOf(q, "SaveID") \cup CallsOf(q, "Process") : calls[q][i].val = id[q]
        /\ pc[q] \in {"process", "next", "returned"} => SavedFor(q) = {id[q]}
        /\ Processed(q) => PostProcessedFor(q) = {id[q]}

C9_OwnPair ==
    /\ v' = v
    /\ opts' = opts
    /\ \A p \in Requests :
         pc'[p] = pc[p] =>
            /\ inbound'[p] = inbound[p]
            /\ req'[p] = req[p]
            /\ rw'[p] = rw[p]
            /\ id'[p] = id[p]
            /\ calls'[p] = calls[p]
            /\ sink'[p] = sink[p]
            /\ ScopeOf(store', p) = ScopeOf(store, p)

\* C9: under every interleaving of the ServeHTTP invocations of one
\* orchestrator, a step of one invocation leaves the request, the response, the
\* id, the context scope and the custom record of every other request as they
\* were and never writes the bindings; what is saved and post-processed for a
\* request is that request's own id.
C9_InvocationsDoNotInterfere == []C9_OwnId /\ [][C9_OwnPair]_vars

C9_Witness ==
    \E p, q \in Requests :
        /\ p # q
        /\ pc[p] = "next" /\ pc[q] = "next"
        /\ id[p] # "" /\ id[q] # "" /\ id[p] # id[q]
        /\ v.idSaveHandler.kind = "context"
        /\ SavedFor(p) = {id[p]} /\ SavedFor(q) = {id[q]}

C10_ScopeHoldsId ==
    v.idSaveHandler.kind = "context" =>
        /\ DOMAIN store \subseteq Requests
        /\ \A q \in Requests :
             /\ pc[q] \in {"idle", "getid", "generate", "save"} => q \notin DOMAIN store
             /\ pc[q] \in {"process", "next", "returned"} =>
                    q \in DOMAIN store /\ store[q] = (v.idSaveHandler.field :> id[q])
             /\ pc[q] = "cleared" => q \notin DOMAIN store
             /\ pc[q] = "done" => (q \in DOMAIN store <=> q \notin cleared)

C10_ScopeSteps ==
    \A q \in Requests :
        /\ (q \in DOMAIN store /\ q \notin DOMAIN store') =>
               pc[q] = "returned" /\ pc'[q] = "cleared"
        /\ ScopeOf(store', q) # ScopeOf(store, q) /\ q \in DOMAIN store' =>
               pc[q] = "save" /\ pc'[q] = "process"

\* C10: with the context save handler, SaveID puts the id under the configured
\* key in the scope of its own request and of no other; no step of ServeHTTP
\* removes a scope, only the outer ClearHandler does, after the downstream
\* handler has returned; so a completed request still has its entry in the
\* table exactly when its scope was never cleared, and none when it was.
C10_ContextScopeLifetime == []C10_ScopeHoldsId /\ [][C10_ScopeSteps]_vars

C10_Witness ==
    \E p, q \in Requests :
        /\ v.idSaveHandler.kind = "context"
        /\ pc[p] = "done" /\ p \notin cleared /\ p \in DOMAIN store
        /\ pc[q] = "done" /\ q \in cleared /\ q \notin DOMAIN store

====
